---------------------------- MODULE Spec2Model ----------------------------
(***************************************************************************)
(* Model of dmoj/graders/bridged.py: BridgedInteractiveGrader.             *)
(*                                                                         *)
(* The grader is constructed once (__init__), then for every test case the *)
(* grading pipeline calls _launch_process, _interact_with_process and      *)
(* check_result in that order.  The submission and the interactor are two  *)
(* child processes that exit on their own schedule.                        *)
(***************************************************************************)
EXTENDS Naturals, Sequences, FiniteSets

(* ------------------------------ bounds -------------------------------- *)
MaxCases == 2
MaxTimeLimit == 2
MaxSlack == 1
MaxMemory == 1
MaxFlag == 2
MaxPoints == 1

(* -------------------------- program constants ------------------------- *)
\* the literal 2 of `(self.handler_data.preprocessing_time or 2)`
DefaultPreprocessingTime == 2
\* env['generator_memory_limit'], the fallback of the interactor's memory limit
generator_memory_limit == 3

(* ------------------------------ values -------------------------------- *)
\* An optional value (a missing config key, None, an attribute not yet set)
\* is the empty tuple; a present value v is <<v>>.
Unset == <<>>
Some(v) == <<v>>

\* Python's `x or d` on an optional number: None and 0 are both falsy.
PyOr(x, d) == IF x = Unset \/ x = Some(0) THEN d ELSE x[1]

\* ConfigNode.get(key, default): the default only when the key is missing.
ConfigGet(x, d) == IF x = Unset THEN d ELSE x[1]

\* Python's `s or d` on a string: None and '' are both falsy ('' stands for both).
PyOrStr(s, d) == IF s = "" THEN d ELSE s

\* dmoj.contrib.contrib_modules, the registry of contrib modules.
contrib_modules == {"default", "testlib"}

\* The shapes handler_data.files can have in a problem's configuration.
FileShapes == {"str", "list", "mapping", "missing"}

HandlerDatas ==
    [files : FileShapes,
     type : {Unset, Some("testlib"), Some("bogus")},
     preprocessing_time : {Unset, Some(0), Some(MaxSlack)},
     memory_limit : {Unset, Some(MaxMemory)}]

\* A test case's settings read by the grader: case.config['checker'], case.points.
TestCases == [checker : {"", "standard", "custom"}, points : {MaxPoints}]

\* Result.result_flag: 0 for a clean run, a non-zero bitmask (TLE, MLE, RTE,
\* ...) otherwise.
ResultFlags == {0, 1, MaxFlag}

\* What the interactor's exit tells the contrib module.
NoVerdict == [kind |-> "none", points |-> 0, feedback |-> ""]
Verdicts ==
    {[kind |-> "pass", points |-> p, feedback |-> ""] : p \in {0, MaxPoints}}
    \cup {[kind |-> "fail", points |-> 0, feedback |-> f] : f \in {"", "wrong answer"}}
    \cup {[kind |-> "crash", points |-> 0, feedback |-> ""]}

\* A file descriptor: the end ("r" or "w") of the pipe made by the first or
\* second os.pipe() call of a case.
Fd(n, pipe, end) == <<n, pipe, end>>
os_pipe_SamePipe(n, pipe) == [r |-> Fd(n, "p1", "r"), w |-> Fd(n, "p1", "w")]
os_pipe(n, pipe) == [r |-> Fd(n, pipe, "r"), w |-> Fd(n, pipe, "w")]
CaseFds(n) == {Fd(n, p, e) : p \in {"p1", "p2"}, e \in {"r", "w"}}

NoProc == [state |-> "none", case |-> 0, stdin |-> Unset, stdout |-> Unset,
           flag |-> 0, verdict |-> NoVerdict, time |-> 0, memory |-> 0,
           binary |-> Unset]

\* CheckerOutput values: Python's False, the interactor's ParsedResult, or the
\* secondary checker's result.
PyFalse == [kind |-> "False", passed |-> FALSE, points |-> 0, feedback |-> ""]
NoOutput == [kind |-> "none", passed |-> FALSE, points |-> 0, feedback |-> ""]
SecondaryOutputs ==
    {[kind |-> "CheckerResult", passed |-> b, points |-> 0, feedback |-> f] :
        b \in BOOLEAN, f \in {"checker says"}}

(* ------------------------------- state -------------------------------- *)
VARIABLES
    handler_data,              \* self.handler_data (problem.config.interactive)
    time_limit,                \* self.problem.time_limit
    ctor,                      \* how __init__ ended: "new" before it ran
    interactor_binary,         \* self.interactor_binary
    contrib_type,              \* self.contrib_type
    compileCalls,              \* calls of compile_with_auxiliary_files so far
    caseNo,                    \* number of the current test case
    case,                      \* the current TestCase
    pc,                        \* where the pipeline is within the case
    exc,                       \* the exception that ended the case, if any
    parentFds,                 \* pipe ends open in the judge process
    _interactor_stdin_pipe,    \* self._interactor_stdin_pipe
    _interactor_stdout_pipe,   \* self._interactor_stdout_pipe
    _current_proc,             \* self._current_proc (the submission)
    _interactor,               \* self._interactor
    _interactor_time_limit,    \* self._interactor_time_limit
    _interactor_memory_limit,  \* self._interactor_memory_limit
    _interactor_stderr,        \* self._interactor_stderr (tagged by its case)
    tmp,                       \* temporary files that exist on disk
    result,                    \* the Result passed to check_result
    parsed_result,             \* check_result's local parsed_result
    secondary,                 \* what super().check_result returned, if called
    ret,                       \* what check_result returned
    log                        \* the calls made during the current case, in order

cfgVars == <<handler_data, time_limit>>
graderVars == <<ctor, interactor_binary, contrib_type, compileCalls>>
fdVars == <<parentFds, _interactor_stdin_pipe, _interactor_stdout_pipe>>
limitVars == <<_interactor_time_limit, _interactor_memory_limit>>
checkVars == <<result, parsed_result, secondary, ret>>
vars == <<handler_data, time_limit, ctor, interactor_binary, contrib_type,
          compileCalls, caseNo, case, pc, exc, parentFds,
          _interactor_stdin_pipe, _interactor_stdout_pipe, _current_proc,
          _interactor, _interactor_time_limit, _interactor_memory_limit,
          _interactor_stderr, tmp, result, parsed_result, secondary, ret, log>>

NoResult == [result_flag |-> 0, proc_output |-> 0]

Init ==
    /\ handler_data \in HandlerDatas
    /\ time_limit \in {1, MaxTimeLimit}
    /\ ctor = "new"
    /\ interactor_binary = Unset
    /\ contrib_type = Unset
    /\ compileCalls = 0
    /\ caseNo = 0
    /\ case = [checker |-> "", points |-> MaxPoints]
    /\ pc = "idle"
    /\ exc = Unset
    /\ parentFds = {}
    /\ _interactor_stdin_pipe = Unset
    /\ _interactor_stdout_pipe = Unset
    /\ _current_proc = NoProc
    /\ _interactor = NoProc
    /\ _interactor_time_limit = 0
    /\ _interactor_memory_limit = 0
    /\ _interactor_stderr = 0
    /\ tmp = {}
    /\ result = NoResult
    /\ parsed_result = NoOutput
    /\ secondary = NoOutput
    /\ ret = NoOutput
    /\ log = <<>>


(* ---------------------------- construction ---------------------------- *)
\* _generate_interactor_binary: how it ends, given whether the compiler
\* accepts the interactor.  A str or a list of files reaches
\* compile_with_auxiliary_files; a mapping passes both isinstance tests
\* untaken and reads the unbound local `filenames`; a missing key (None) has
\* no unwrap().
_generate_interactor_binary(files, compiles) ==
    CASE files \in {"str", "list"} ->
            [exc |-> IF compiles THEN "none" ELSE "CompileError", compiled |-> 1]
      [] files = "mapping" -> [exc |-> "UnboundLocalError", compiled |-> 0]
      [] OTHER -> [exc |-> "AttributeError", compiled |-> 0]

InternalErrors ==
    {"InternalError: interactor failed compiling",
     "InternalError: not a valid contrib module"}

RethrowCompileError_Missing(e) == e

\* __init__, lines 32-36: what leaves the try statement around
\* _generate_interactor_binary.
RethrowCompileError(e) ==
    IF e = "CompileError" THEN "InternalError: interactor failed compiling" ELSE e

\* __init__, lines 38-40: the registry test on the configured type.
CheckContribType(t) ==
    IF t \notin contrib_modules THEN "InternalError: not a valid contrib module" ELSE "ok"

__init__(compiles) ==
    /\ ctor = "new"
    /\ LET g == _generate_interactor_binary(handler_data.files, compiles)
           t == ConfigGet(handler_data.type, "default")
       IN  /\ compileCalls' = compileCalls + g.compiled
           /\ IF g.exc # "none"
                THEN /\ ctor' = RethrowCompileError(g.exc)
                     /\ UNCHANGED <<interactor_binary, contrib_type>>
                ELSE /\ interactor_binary' = Some("interactor")
                     /\ contrib_type' = Some(t)
                     /\ ctor' = CheckContribType(t)
    /\ UNCHANGED <<cfgVars, caseNo, case, pc, exc, fdVars, _current_proc,
                   _interactor, limitVars, _interactor_stderr, tmp, checkVars, log>>

(* --------------------------- _launch_process -------------------------- *)
LaunchOutcomes == {"ok", "pipe1 raises", "pipe2 raises", "launch raises",
                   "close stdin raises", "close stdout raises"}

LaunchParentFds_StdinKept(n, o) ==
    LET p1 == os_pipe(n, "p1")
        p2 == os_pipe(n, "p2")
    IN  CASE o = "pipe1 raises" -> {}
          [] o = "pipe2 raises" -> {p1.r, p1.w}
          [] o = "launch raises" -> {p1.r, p1.w, p2.r, p2.w}
          [] o = "close stdin raises" -> {p1.r, p1.w, p2.r, p2.w}
          [] o = "close stdout raises" -> {p1.r, p1.w, p2.r, p2.w}
          [] OTHER -> {p1.r, p2.r, p2.w}

LaunchParentFds_StdoutKept(n, o) ==
    LET p1 == os_pipe(n, "p1")
        p2 == os_pipe(n, "p2")
    IN  CASE o = "pipe1 raises" -> {}
          [] o = "pipe2 raises" -> {p1.r, p1.w}
          [] o = "launch raises" -> {p1.r, p1.w, p2.r, p2.w}
          [] o = "close stdin raises" -> {p1.r, p1.w, p2.r, p2.w}
          [] OTHER -> {p1.r, p1.w, p2.w}

\* The pipe ends the parent still holds when _launch_process ends with
\* outcome o.  p1 is (self._interactor_stdin_pipe, submission_stdout_pipe),
\* p2 is (submission_stdin_pipe, self._interactor_stdout_pipe).
LaunchParentFds(n, o) ==
    LET p1 == os_pipe(n, "p1")
        p2 == os_pipe(n, "p2")
    IN  CASE o = "pipe1 raises" -> {}
          [] o = "pipe2 raises" -> {p1.r, p1.w}
          [] o = "launch raises" -> {p1.r, p1.w, p2.r, p2.w}
          [] o = "close stdin raises" -> {p1.r, p1.w, p2.r, p2.w}
          [] o = "close stdout raises" -> {p1.r, p1.w, p2.w}
          [] OTHER -> {p1.r, p2.w}

\* One call starts the next test case: after construction or after a case
\* that was checked.  An exception that leaves an operation of a case is an
\* internal fault, which halts the grading of the submission: no further case
\* is started with this grader.
_launch_process(c, o) ==
    /\ ctor = "ok"
    /\ pc \in {"idle", "done"}
    /\ caseNo < MaxCases
    /\ LET n == caseNo + 1
           p1 == os_pipe(n, "p1")
           p2 == os_pipe(n, "p2")
           launched == o \in {"ok", "close stdin raises", "close stdout raises"}
       IN  /\ caseNo' = n
           /\ case' = c
           /\ parentFds' = parentFds \cup LaunchParentFds(n, o)
           /\ _interactor_stdin_pipe' =
                 IF o = "pipe1 raises" THEN _interactor_stdin_pipe ELSE Some(p1.r)
           /\ _interactor_stdout_pipe' =
                 IF o \in {"pipe1 raises", "pipe2 raises"}
                   THEN _interactor_stdout_pipe ELSE Some(p2.w)
           /\ _current_proc' =
                 IF launched
                   THEN [NoProc EXCEPT !.state = "running", !.case = n,
                                       !.stdin = Some(p2.r), !.stdout = Some(p1.w),
                                       !.time = time_limit,
                                       !.binary = Some("submission")]
                   ELSE _current_proc
           /\ pc' = IF o = "ok" THEN "launched" ELSE "raised"
           /\ exc' = IF o = "ok" THEN Unset ELSE <<"_launch_process", "OSError">>
           /\ log' = IF launched THEN <<"launch submission">> ELSE <<>>
    /\ result' = NoResult
    /\ parsed_result' = NoOutput
    /\ secondary' = NoOutput
    /\ ret' = NoOutput
    /\ UNCHANGED <<cfgVars, graderVars, _interactor, limitVars,
                   _interactor_stderr, tmp>>

(* --------------------------- child processes -------------------------- *)
\* The submission exits (by itself or killed by the sandbox at its limit);
\* its ends of the pipes close with it.
SubmissionExits(flag) ==
    /\ _current_proc.state = "running"
    /\ _current_proc' = [_current_proc EXCEPT !.state = "exited", !.flag = flag]
    /\ UNCHANGED <<cfgVars, graderVars, caseNo, case, pc, exc, fdVars,
                   _interactor, limitVars, _interactor_stderr, tmp, checkVars, log>>

InteractorExits(v) ==
    /\ _interactor.state = "running"
    /\ v.points <= case.points
    /\ _interactor' = [_interactor EXCEPT !.state = "exited", !.verdict = v]
    /\ UNCHANGED <<cfgVars, graderVars, caseNo, case, pc, exc, fdVars,
                   _current_proc, limitVars, _interactor_stderr, tmp, checkVars, log>>

(* ----------------------- _interact_with_process ----------------------- *)
\* What a scoped temporary file's context manager does when it is left: the
\* file is removed.
mktemp_exit(files, f) == files \ {f}

LeaveWith_InputOnly(files) == mktemp_exit(files, "input")

\* Leaving the block of `with mktemp(input) as input_file, mktemp(judge_output)
\* as answer_file`, by return or by exception: both managers are exited.
LeaveWith(files) == mktemp_exit(mktemp_exit(files, "answer"), "input")

\* Lines 108-124: the statement that follows each statement of the with block.
StepAfter_WaitFirst(p) ==
    CASE p = "launch interactor" -> "close stdin"
      [] p = "close stdin" -> "close stdout"
      [] p = "close stdout" -> "wait"
      [] p = "wait" -> "communicate"
      [] p = "communicate" -> "read stderr"
      [] OTHER -> "interacted"

StepAfter(p) ==
    CASE p = "launch interactor" -> "close stdin"
      [] p = "close stdin" -> "close stdout"
      [] p = "close stdout" -> "communicate"
      [] p = "communicate" -> "wait"
      [] p = "wait" -> "read stderr"
      [] OTHER -> "interacted"

\* Line 88.
InteractorTimeLimit(hd, tl) == PyOr(hd.preprocessing_time, DefaultPreprocessingTime) + tl

\* Line 89.
InteractorMemoryLimit(hd) == PyOr(hd.memory_limit, generator_memory_limit)

\* An exception leaves _interact_with_process; files is what is left on disk.
RaiseFromInteract(type, files) ==
    /\ pc' = "raised"
    /\ exc' = <<"_interact_with_process", type>>
    /\ tmp' = files

\* Lines 83-93: the asserts, the limits and the argument template.
ComputeLimits ==
    /\ pc = "launched"
    /\ _current_proc.state # "none"
    /\ _interactor_time_limit' = InteractorTimeLimit(handler_data, time_limit)
    /\ _interactor_memory_limit' = InteractorMemoryLimit(handler_data)
    /\ pc' = "mktemp input"
    /\ UNCHANGED <<cfgVars, graderVars, caseNo, case, exc, fdVars, _current_proc,
                   _interactor, _interactor_stderr, tmp, checkVars, log>>

\* Line 95, first manager.
MktempInput(ok) ==
    /\ pc = "mktemp input"
    /\ IF ok
         THEN /\ tmp' = tmp \cup {"input"}
              /\ pc' = "mktemp answer"
              /\ UNCHANGED exc
         ELSE RaiseFromInteract("OSError", tmp)
    /\ UNCHANGED <<cfgVars, graderVars, caseNo, case, fdVars, _current_proc,
                   _interactor, limitVars, _interactor_stderr, checkVars, log>>

\* Line 95, second manager: when it raises, the first one is exited.
MktempAnswer(ok) ==
    /\ pc = "mktemp answer"
    /\ IF ok
         THEN /\ tmp' = tmp \cup {"answer"}
              /\ pc' = "launch interactor"
              /\ UNCHANGED exc
         ELSE RaiseFromInteract("OSError", mktemp_exit(tmp, "input"))
    /\ UNCHANGED <<cfgVars, graderVars, caseNo, case, fdVars, _current_proc,
                   _interactor, limitVars, _interactor_stderr, checkVars, log>>

LaunchInteractor_FilesGone(ok) ==
    /\ pc = "launch interactor"
    /\ IF ok
         THEN /\ _interactor' =
                    [NoProc EXCEPT !.state = "running", !.case = caseNo,
                                   !.stdin = _interactor_stdin_pipe,
                                   !.stdout = _interactor_stdout_pipe,
                                   !.time = _interactor_time_limit,
                                   !.memory = _interactor_memory_limit,
                                   !.binary = interactor_binary]
              /\ log' = Append(log, "launch interactor")
              /\ pc' = "close stdin"
              /\ tmp' = LeaveWith(tmp)
              /\ UNCHANGED exc
         ELSE /\ RaiseFromInteract("OSError", LeaveWith(tmp))
              /\ UNCHANGED <<_interactor, log>>
    /\ UNCHANGED <<cfgVars, graderVars, caseNo, case, fdVars, _current_proc,
                   limitVars, _interactor_stderr, checkVars>>

LaunchInteractor_Recompiles(ok) ==
    /\ pc = "launch interactor"
    /\ IF ok
         THEN /\ compileCalls' = compileCalls + 1
              /\ interactor_binary' = Some("interactor rebuilt")
              /\ _interactor' =
                    [NoProc EXCEPT !.state = "running", !.case = caseNo,
                                   !.stdin = _interactor_stdin_pipe,
                                   !.stdout = _interactor_stdout_pipe,
                                   !.time = _interactor_time_limit,
                                   !.memory = _interactor_memory_limit,
                                   !.binary = interactor_binary']
              /\ log' = Append(log, "launch interactor")
              /\ pc' = "close stdin"
              /\ UNCHANGED <<exc, tmp>>
         ELSE /\ RaiseFromInteract("OSError", LeaveWith(tmp))
              /\ UNCHANGED <<_interactor, log, compileCalls, interactor_binary>>
    /\ UNCHANGED <<cfgVars, ctor, contrib_type, caseNo, case, fdVars, _current_proc,
                   limitVars, _interactor_stderr, checkVars>>

\* Lines 108-116.
LaunchInteractor(ok) ==
    /\ pc = "launch interactor"
    /\ IF ok
         THEN /\ _interactor' =
                    [NoProc EXCEPT !.state = "running", !.case = caseNo,
                                   !.stdin = _interactor_stdin_pipe,
                                   !.stdout = _interactor_stdout_pipe,
                                   !.time = _interactor_time_limit,
                                   !.memory = _interactor_memory_limit,
                                   !.binary = interactor_binary]
              /\ log' = Append(log, "launch interactor")
              /\ pc' = StepAfter("launch interactor")
              /\ UNCHANGED <<exc, tmp>>
         ELSE /\ RaiseFromInteract("OSError", LeaveWith(tmp))
              /\ UNCHANGED <<_interactor, log>>
    /\ UNCHANGED <<cfgVars, graderVars, caseNo, case, fdVars, _current_proc,
                   limitVars, _interactor_stderr, checkVars>>

\* Line 118.
CloseInteractorStdin(ok) ==
    /\ pc = "close stdin"
    /\ IF ok
         THEN /\ parentFds' = parentFds \ {_interactor_stdin_pipe[1]}
              /\ log' = Append(log, "close stdin")
              /\ pc' = StepAfter("close stdin")
              /\ UNCHANGED <<exc, tmp>>
         ELSE /\ RaiseFromInteract("OSError", LeaveWith(tmp))
              /\ UNCHANGED <<parentFds, log>>
    /\ UNCHANGED <<cfgVars, graderVars, caseNo, case, _interactor_stdin_pipe,
                   _interactor_stdout_pipe, _current_proc, _interactor, limitVars,
                   _interactor_stderr, checkVars>>

CloseInteractorStdout_Skipped(ok) ==
    /\ pc = "close stdout"
    /\ IF ok
         THEN /\ log' = Append(log, "close stdout")
              /\ pc' = "communicate"
              /\ UNCHANGED <<exc, tmp, parentFds>>
         ELSE /\ RaiseFromInteract("OSError", LeaveWith(tmp))
              /\ UNCHANGED <<parentFds, log>>
    /\ UNCHANGED <<cfgVars, graderVars, caseNo, case, _interactor_stdin_pipe,
                   _interactor_stdout_pipe, _current_proc, _interactor, limitVars,
                   _interactor_stderr, checkVars>>

\* Line 119.
CloseInteractorStdout(ok) ==
    /\ pc = "close stdout"
    /\ IF ok
         THEN /\ parentFds' = parentFds \ {_interactor_stdout_pipe[1]}
              /\ log' = Append(log, "close stdout")
              /\ pc' = StepAfter("close stdout")
              /\ UNCHANGED <<exc, tmp>>
         ELSE /\ RaiseFromInteract("OSError", LeaveWith(tmp))
              /\ UNCHANGED <<parentFds, log>>
    /\ UNCHANGED <<cfgVars, graderVars, caseNo, case, _interactor_stdin_pipe,
                   _interactor_stdout_pipe, _current_proc, _interactor, limitVars,
                   _interactor_stderr, checkVars>>

Communicate_StderrDropped(ok) ==
    /\ pc = "communicate"
    /\ IF ok
         THEN /\ _interactor.state = "exited"
              /\ result' = [result EXCEPT !.proc_output = caseNo]
              /\ log' = Append(log, "communicate")
              /\ pc' = "wait"
              /\ UNCHANGED <<exc, tmp, _interactor_stderr>>
         ELSE /\ RaiseFromInteract("OSError", LeaveWith(tmp))
              /\ UNCHANGED <<result, _interactor_stderr, log>>
    /\ UNCHANGED <<cfgVars, graderVars, caseNo, case, fdVars, _current_proc,
                   _interactor, limitVars, parsed_result, secondary, ret>>

\* Line 121: communicate() returns once the interactor has exited.
Communicate(ok) ==
    /\ pc = "communicate"
    /\ IF ok
         THEN /\ _interactor.state = "exited"
              /\ result' = [result EXCEPT !.proc_output = caseNo]
              /\ _interactor_stderr' = caseNo
              /\ log' = Append(log, "communicate")
              /\ pc' = StepAfter("communicate")
              /\ UNCHANGED <<exc, tmp>>
         ELSE /\ RaiseFromInteract("OSError", LeaveWith(tmp))
              /\ UNCHANGED <<result, _interactor_stderr, log>>
    /\ UNCHANGED <<cfgVars, graderVars, caseNo, case, fdVars, _current_proc,
                   _interactor, limitVars, parsed_result, secondary, ret>>

\* Line 122: wait() returns once the submission has exited.
Wait(ok) ==
    /\ pc = "wait"
    /\ IF ok
         THEN /\ _current_proc.state = "exited"
              /\ log' = Append(log, "wait")
              /\ pc' = StepAfter("wait")
              /\ UNCHANGED <<exc, tmp>>
         ELSE /\ RaiseFromInteract("OSError", LeaveWith(tmp))
              /\ UNCHANGED log
    /\ UNCHANGED <<cfgVars, graderVars, caseNo, case, fdVars, _current_proc,
                   _interactor, limitVars, _interactor_stderr, checkVars>>

\* Line 124: the return leaves the with block.
ReadStderr(ok) ==
    /\ pc = "read stderr"
    /\ IF ok
         THEN /\ log' = Append(log, "read stderr")
              /\ pc' = StepAfter("read stderr")
              /\ tmp' = LeaveWith(tmp)
              /\ UNCHANGED exc
         ELSE /\ RaiseFromInteract("OSError", LeaveWith(tmp))
              /\ UNCHANGED log
    /\ UNCHANGED <<cfgVars, graderVars, caseNo, case, fdVars, _current_proc,
                   _interactor, limitVars, _interactor_stderr, checkVars>>

(* ----------------------------- check_result --------------------------- *)
\* ContribModule.parse_return_code on the interactor's exit: a crash of the
\* interactor raises InternalError, anything else is a ParsedResult.
parse_return_code(proc) ==
    IF proc.verdict.kind = "crash"
      THEN [exc |-> "InternalError", value |-> NoOutput]
      ELSE [exc |-> "none",
            value |-> [kind |-> "ParsedResult",
                       passed |-> (proc.verdict.kind = "pass"),
                       points |-> proc.verdict.points,
                       feedback |-> proc.verdict.feedback]]

FlagFails_Never(r) == FALSE

FlagFails_OneBit(r) == r.result_flag = 1

\* Line 58: `if result.result_flag`.
FlagFails(r) == r.result_flag # 0

DefersToChecker_Never(parsed, c) == FALSE

DefersToChecker_AnyVerdict(parsed, c) == PyOrStr(c.checker, "standard") # "standard"

\* Line 61: `parsed_result.passed and (case.config['checker'] or 'standard') != 'standard'`.
DefersToChecker(parsed, c) ==
    parsed.passed /\ PyOrStr(c.checker, "standard") # "standard"

ParseReturnCode_FlagFirst ==
    /\ pc = "interacted"
    /\ result' = [result EXCEPT !.result_flag = _current_proc.flag]
    /\ IF _current_proc.flag # 0
         THEN /\ ret' = PyFalse
              /\ pc' = "done"
              /\ log' = Append(log, "inspect result_flag")
              /\ UNCHANGED <<parsed_result, exc>>
         ELSE LET p == parse_return_code(_interactor)
              IN  /\ log' = Append(log, "parse_return_code")
                  /\ UNCHANGED ret
                  /\ IF p.exc = "none"
                       THEN /\ parsed_result' = p.value
                            /\ pc' = "check flag"
                            /\ UNCHANGED exc
                       ELSE /\ pc' = "raised"
                            /\ exc' = <<"check_result", p.exc>>
                            /\ UNCHANGED parsed_result
    /\ UNCHANGED <<cfgVars, graderVars, caseNo, case, fdVars, _current_proc,
                   _interactor, limitVars, _interactor_stderr, tmp, secondary>>

\* Lines 46-56.  The Result passed in carries the submission's result flag.
ParseReturnCode ==
    /\ pc = "interacted"
    /\ LET p == parse_return_code(_interactor)
       IN  /\ result' = [result EXCEPT !.result_flag = _current_proc.flag]
           /\ log' = Append(log, "parse_return_code")
           /\ IF p.exc = "none"
                THEN /\ parsed_result' = p.value
                     /\ pc' = "check flag"
                     /\ UNCHANGED exc
                ELSE /\ pc' = "raised"
                     /\ exc' = <<"check_result", p.exc>>
                     /\ UNCHANGED parsed_result
    /\ UNCHANGED <<cfgVars, graderVars, caseNo, case, fdVars, _current_proc,
                   _interactor, limitVars, _interactor_stderr, tmp, secondary, ret>>

\* Lines 58-59.
CheckFlag ==
    /\ pc = "check flag"
    /\ log' = Append(log, "inspect result_flag")
    /\ IF FlagFails(result)
         THEN ret' = PyFalse /\ pc' = "done"
         ELSE UNCHANGED ret /\ pc' = "check checker"
    /\ UNCHANGED <<cfgVars, graderVars, caseNo, case, exc, fdVars, _current_proc,
                   _interactor, limitVars, _interactor_stderr, tmp, result,
                   parsed_result, secondary>>

\* Lines 61-65.
CheckChecker ==
    /\ pc = "check checker"
    /\ IF DefersToChecker(parsed_result, case)
         THEN \E out \in SecondaryOutputs :
                 /\ secondary' = out
                 /\ ret' = out
                 /\ log' = Append(log, "super().check_result")
         ELSE /\ ret' = parsed_result
              /\ UNCHANGED <<secondary, log>>
    /\ pc' = "done"
    /\ UNCHANGED <<cfgVars, graderVars, caseNo, case, exc, fdVars, _current_proc,
                   _interactor, limitVars, _interactor_stderr, tmp, result,
                   parsed_result>>

(* ---------------------------- specification --------------------------- *)
Next ==
    \/ \E compiles \in BOOLEAN : __init__(compiles)
    \/ \E c \in TestCases, o \in LaunchOutcomes : _launch_process(c, o)
    \/ \E flag \in ResultFlags : SubmissionExits(flag)
    \/ \E v \in Verdicts : InteractorExits(v)
    \/ ComputeLimits
    \/ \E ok \in BOOLEAN : MktempInput(ok)
    \/ \E ok \in BOOLEAN : MktempAnswer(ok)
    \/ \E ok \in BOOLEAN : LaunchInteractor(ok)
    \/ \E ok \in BOOLEAN : CloseInteractorStdin(ok)
    \/ \E ok \in BOOLEAN : CloseInteractorStdout(ok)
    \/ \E ok \in BOOLEAN : Communicate(ok)
    \/ \E ok \in BOOLEAN : Wait(ok)
    \/ \E ok \in BOOLEAN : ReadStderr(ok)
    \/ ParseReturnCode
    \/ CheckFlag
    \/ CheckChecker

Spec == Init /\ [][Next]_vars

(* ------------------------------- claims ------------------------------- *)
Logged(e) == \E i \in DOMAIN log : log[i] = e
Before(a, b) == \A i \in DOMAIN log : log[i] = b => \E j \in 1..(i-1) : log[j] = a
Returned == pc = "done"
StandardChecker == case.checker \in {"", "standard"}

\* C1: whenever check_result returns for a submission whose result_flag is
\* non-zero, whatever verdict was parsed from the interactor, it returns False.
C1_Precedence ==
    (Returned /\ result.result_flag # 0) => ret = PyFalse

C1_Witness ==
    /\ Returned /\ result.result_flag = MaxFlag
    /\ parsed_result.passed /\ parsed_result.points = MaxPoints
    /\ case.checker = "custom"

\* C2: parse_return_code is called before result_flag is inspected, and when
\* the interactor crashed the InternalError leaves check_result: no verdict is
\* returned, also for a submission whose result_flag is non-zero.
C2_ParseFirst ==
    /\ Before("parse_return_code", "inspect result_flag")
    /\ Returned => _interactor.verdict.kind # "crash"
    /\ (pc = "raised" /\ exc = <<"check_result", "InternalError">>) =>
          (ret = NoOutput /\ ~Logged("inspect result_flag")
           /\ _interactor.verdict.kind = "crash")

C2_Witness ==
    /\ pc = "raised" /\ exc = <<"check_result", "InternalError">>
    /\ result.result_flag # 0

\* C3: with result_flag zero, a passing interactor verdict and a checker other
\* than 'standard' (unset counts as 'standard'), check_result returns what the
\* secondary checker returned, not the interactor's ParsedResult.
C3_Deferral ==
    (Returned /\ result.result_flag = 0 /\ parsed_result.passed /\ ~StandardChecker)
        => (ret = secondary /\ ret.kind = "CheckerResult" /\ ret # parsed_result)

C3_Witness ==
    /\ Returned /\ result.result_flag = 0 /\ parsed_result.passed
    /\ case.checker = "custom" /\ ~ret.passed

\* C4: with result_flag zero and either a failing interactor verdict or a
\* 'standard'/unset checker, check_result returns the interactor's ParsedResult
\* unchanged: its passed flag, points and feedback are the interactor's.
C4_InteractorVerdict ==
    (Returned /\ result.result_flag = 0 /\ (~parsed_result.passed \/ StandardChecker))
        => /\ ret = parsed_result
           /\ ret.kind = "ParsedResult"
           /\ ret.passed = (_interactor.verdict.kind = "pass")
           /\ ret.points = _interactor.verdict.points
           /\ ret.feedback = _interactor.verdict.feedback
           /\ secondary = NoOutput

C4_Witness ==
    /\ Returned /\ result.result_flag = 0
    /\ ~parsed_result.passed /\ case.checker = "custom"
    /\ ret.feedback = "wrong answer"

\* C5: the interactor's time budget is T + S for every configured slack S,
\* S = 0 included, and T + 2 only when no slack is configured.
C5_TimeBudget ==
    _interactor_time_limit # 0 =>
        _interactor_time_limit =
            time_limit + (IF handler_data.preprocessing_time = Unset
                            THEN DefaultPreprocessingTime
                            ELSE handler_data.preprocessing_time[1])

\* C6: once the submission and the interactor are both launched and the parent
\* is about to drain the interactor, the parent holds none of the four pipe
\* ends of the case; they are the ends handed to the two children.
ParentDoneWithPipes ==
    {"communicate", "wait", "read stderr", "interacted", "check flag",
     "check checker", "done"}

C6_NoPipeEndInParent ==
    pc \in ParentDoneWithPipes =>
        /\ parentFds \cap CaseFds(caseNo) = {}
        /\ _current_proc.case = caseNo /\ _interactor.case = caseNo
        /\ {_current_proc.stdin[1], _current_proc.stdout[1],
            _interactor.stdin[1], _interactor.stdout[1]} = CaseFds(caseNo)

C6_Witness ==
    /\ pc = "communicate" /\ caseNo = MaxCases
    /\ _current_proc.state = "running" /\ _interactor.state = "running"

\* C7: whenever control is outside the with block of _interact_with_process,
\* by return or by an exception of any step, no temporary file exists.
InsideWith ==
    {"mktemp answer", "launch interactor", "close stdin", "close stdout",
     "communicate", "wait", "read stderr"}

C7_TempFilesRemoved == pc \notin InsideWith => tmp = {}

C7_Witness ==
    /\ pc = "raised" /\ exc = <<"_interact_with_process", "OSError">>
    /\ Logged("communicate") /\ ~Logged("wait")
    /\ tmp = {}

\* C8: the calls of a case happen in the order launch interactor, close the two
\* pipe ends, communicate, wait, read stderr; communicate has returned only if
\* the interactor exited, and wait is called only after that.
InteractOrder ==
    <<"launch submission", "launch interactor", "close stdin", "close stdout",
      "communicate", "wait", "read stderr">>

C8_SessionOrder ==
    /\ \A i \in DOMAIN log : i <= Len(InteractOrder) => log[i] = InteractOrder[i]
    /\ Logged("communicate") => _interactor.state = "exited"
    /\ Logged("wait") => (Logged("communicate") /\ _current_proc.state = "exited")
    /\ pc = "interacted" => log = InteractOrder

C8_Witness == pc = "interacted" /\ log = InteractOrder

\* C9: when the configured contrib type is not in the registry, construction
\* ends in InternalError and no test-case operation ever runs.
C9_UnknownContribType ==
    (ctor # "new" /\ ConfigGet(handler_data.type, "default") \notin contrib_modules)
        => (ctor \in InternalErrors /\ caseNo = 0 /\ _current_proc = NoProc
            /\ _interactor = NoProc)

\* C10: when the compiler rejects the interactor, construction ends in
\* InternalError, never in CompileError, and no test case runs.
C10_CompileFailureIsInternal ==
    (compileCalls > 0 /\ interactor_binary = Unset)
        => (ctor = "InternalError: interactor failed compiling"
            /\ caseNo = 0 /\ pc = "idle"
            /\ _current_proc = NoProc /\ _interactor = NoProc)

C10_Witness ==
    /\ ctor = "InternalError: interactor failed compiling"
    /\ compileCalls = 1 /\ interactor_binary = Unset

\* C11: when the interactor file list is neither a single path nor a list of
\* paths, construction ends in InternalError and in no other kind of failure.
C11_MalformedFileList ==
    (ctor # "new" /\ handler_data.files \notin {"str", "list"})
        => ctor \in InternalErrors

\* C12: the interactor binary is compiled once, at construction; no per-case
\* operation changes the binary handle, the handler configuration or the
\* contrib type, and every interactor process is launched from that binary.
C12_BinarySharedReadOnly ==
    /\ [](ctor = "ok" => (compileCalls = 1 /\ interactor_binary # Unset))
    /\ [](_interactor.state # "none" => _interactor.binary = interactor_binary)
    /\ [][ctor # "new" =>
            /\ interactor_binary' = interactor_binary
            /\ handler_data' = handler_data
            /\ contrib_type' = contrib_type
            /\ compileCalls' = compileCalls]_vars

C12_Witness ==
    /\ pc = "done" /\ caseNo = MaxCases /\ caseNo > 1
    /\ _interactor.case = caseNo /\ _interactor.binary = interactor_binary
    /\ compileCalls = 1

\* C13: however a case ends, by check_result returning or by an exception of
\* any of its operations, no pipe end created for that case is still open in
\* the parent.
C13_ContextDiscarded ==
    pc \in {"done", "raised"} => parentFds \cap CaseFds(caseNo) = {}

\* C14: when _launch_process has returned normally the parent no longer
\* holds the two ends handed to the submission (its stdin read end and its
\* stdout write end) and holds exactly the two interactor-side ends: the read
\* end of submission-to-interactor and the write end of interactor-to-
\* submission.  This is so before any interactor operation of the case.
BeforeInteractorLaunch ==
    {"launched", "mktemp input", "mktemp answer", "launch interactor"}

C14_AfterLaunch ==
    /\ pc \in BeforeInteractorLaunch =>
          /\ parentFds \cap CaseFds(caseNo) =
                {Fd(caseNo, "p1", "r"), Fd(caseNo, "p2", "w")}
          /\ _current_proc.case = caseNo
          /\ _current_proc.stdin = Some(Fd(caseNo, "p2", "r"))
          /\ _current_proc.stdout = Some(Fd(caseNo, "p1", "w"))
          /\ _interactor_stdin_pipe = Some(Fd(caseNo, "p1", "r"))
          /\ _interactor_stdout_pipe = Some(Fd(caseNo, "p2", "w"))
          /\ log = <<"launch submission">>
    /\ Logged("launch interactor") =>
          /\ Fd(caseNo, "p2", "r") \notin parentFds
          /\ Fd(caseNo, "p1", "w") \notin parentFds

C14_Witness ==
    /\ pc = "launched" /\ caseNo = MaxCases
    /\ _current_proc.state = "running"
    /\ Cardinality(parentFds \cap CaseFds(caseNo)) = 2

\* C15: the two pipes are cross-wired.  The submission's stdout is the write
\* end and the interactor's stdin the read end of one pipe; the interactor's
\* stdout is the write end and the submission's stdin the read end of the
\* other pipe; no process is given both ends of one pipe.
CaseOf(fd) == fd[1][1]
PipeOf(fd) == fd[1][2]
EndOf(fd) == fd[1][3]

BothLaunched ==
    /\ _current_proc.case = caseNo /\ _current_proc.state # "none"
    /\ _interactor.case = caseNo /\ _interactor.state # "none"

C15_CrossWired ==
    BothLaunched =>
        /\ EndOf(_current_proc.stdout) = "w" /\ EndOf(_interactor.stdin) = "r"
        /\ PipeOf(_current_proc.stdout) = PipeOf(_interactor.stdin)
        /\ EndOf(_interactor.stdout) = "w" /\ EndOf(_current_proc.stdin) = "r"
        /\ PipeOf(_interactor.stdout) = PipeOf(_current_proc.stdin)
        /\ PipeOf(_current_proc.stdin) # PipeOf(_current_proc.stdout)
        /\ PipeOf(_interactor.stdin) # PipeOf(_interactor.stdout)
        /\ \A p \in {_current_proc, _interactor} :
              CaseOf(p.stdin) = caseNo /\ CaseOf(p.stdout) = caseNo

C15_Witness ==
    /\ BothLaunched /\ caseNo = MaxCases
    /\ _current_proc.state = "running" /\ _interactor.state = "running"
    /\ PipeOf(_current_proc.stdout) = "p1" /\ PipeOf(_interactor.stdout) = "p2"

\* C16: check_result calls the secondary checker only for a submission
\* whose result_flag is zero, an interactor verdict that is a pass and a
\* checker other than 'standard'; never for a flagged submission or a failing
\* interactor verdict, whatever the checker.
SecondaryInvoked == Logged("super().check_result") \/ secondary # NoOutput

C16_SecondaryOnlyWhenNeeded ==
    SecondaryInvoked =>
        /\ result.result_flag = 0
        /\ parsed_result.kind = "ParsedResult" /\ parsed_result.passed
        /\ _interactor.verdict.kind = "pass"
        /\ case.checker \notin {"", "standard"}

C16_Witness ==
    /\ SecondaryInvoked /\ Returned
    /\ case.checker = "custom" /\ result.result_flag = 0

\* C17 as claimed: the temporary input and answer files exist during the whole
\* time the interactor process of the case is running.
BothFiles == {"input", "answer"}

C17_FilesWhileInteractorRuns ==
    (_interactor.case = caseNo /\ _interactor.state = "running") => tmp = BothFiles

\* C17, amended: both files exist before the interactor is launched, and as
\* long as no exception has left _interact_with_process they exist while the
\* interactor runs and are removed only after the interactor has exited and
\* the submission has been waited for.
C17_FilesUntilWaited ==
    /\ pc = "launch interactor" => tmp = BothFiles
    /\ (_interactor.case = caseNo /\ _interactor.state = "running" /\ pc # "raised")
          => tmp = BothFiles
    /\ (Logged("launch interactor") /\ pc # "raised" /\ tmp # BothFiles)
          => /\ _interactor.state = "exited"
             /\ _current_proc.state = "exited"
             /\ Before("communicate", "wait") /\ Logged("wait")

C17_Witness ==
    /\ pc = "wait" /\ _interactor.case = caseNo /\ _interactor.state = "exited"
    /\ _current_proc.state = "running" /\ tmp = BothFiles

(* ------------------------------ fairness ------------------------------ *)
\* The grader is single-threaded and runs each statement it reaches unless it
\* is blocked in communicate() or wait(); each child exits by itself or is
\* terminated by the sandbox at its limit.  Exceptions may happen, none must.
FairSpec ==
    /\ Spec
    /\ WF_vars(ComputeLimits)
    /\ WF_vars(MktempInput(TRUE))
    /\ WF_vars(MktempAnswer(TRUE))
    /\ WF_vars(LaunchInteractor(TRUE))
    /\ WF_vars(CloseInteractorStdin(TRUE))
    /\ WF_vars(CloseInteractorStdout(TRUE))
    /\ WF_vars(Communicate(TRUE))
    /\ WF_vars(Wait(TRUE))
    /\ WF_vars(ReadStderr(TRUE))
    /\ WF_vars(\E flag \in ResultFlags : SubmissionExits(flag))
    /\ WF_vars(\E v \in Verdicts : InteractorExits(v))

\* The processes that hold pipe end fd open: the parent, and a child that was
\* handed it and has not exited.
Holders(fd) ==
    {h \in {"parent"} : fd \in parentFds}
    \cup {h \in {"submission"} :
            _current_proc.state = "running" /\ Some(fd) \in {_current_proc.stdin, _current_proc.stdout}}
    \cup {h \in {"interactor"} :
            _interactor.state = "running" /\ Some(fd) \in {_interactor.stdin, _interactor.stdout}}

\* A read on proc's stdin returns end-of-file: nobody holds the write end of
\* that pipe.
ReadsEof(proc) == Holders(Fd(CaseOf(proc.stdin), PipeOf(proc.stdin), "w")) = {}

ParentBlocked == pc \in {"communicate", "wait"}
InteractReturned == pc \in {"interacted", "raised"}

\* C18: every run of _launch_process followed by _interact_with_process
\* eventually returns; and while the parent is blocked draining the interactor
\* or waiting for the submission, the parent holds no write end, so that once
\* one child has exited a read by the other child returns end-of-file.
C18_NoDeadlock ==
    /\ (pc = "launched") ~> InteractReturned
    /\ [](ParentBlocked /\ BothLaunched =>
            /\ "parent" \notin Holders(Fd(caseNo, "p1", "w"))
            /\ "parent" \notin Holders(Fd(caseNo, "p2", "w"))
            /\ (_current_proc.state = "exited" /\ _interactor.state = "running")
                  => ReadsEof(_interactor)
            /\ (_interactor.state = "exited" /\ _current_proc.state = "running")
                  => ReadsEof(_current_proc))

C18_Witness ==
    /\ pc = "wait" /\ BothLaunched /\ caseNo = MaxCases
    /\ _interactor.state = "exited" /\ _current_proc.state = "running"
    /\ ReadsEof(_current_proc)

\* C19: whenever check_result has called parse_return_code for a case, the
\* interactor process handle, the interactor's time and memory limits and the
\* interactor stderr it passed are those of that same case's interaction,
\* never an earlier case's.
C19_SameCaseContext ==
    Logged("parse_return_code") =>
        /\ _interactor.case = caseNo /\ _interactor.state = "exited"
        /\ _interactor_stderr = caseNo
        /\ result.proc_output = caseNo
        /\ _interactor.time = _interactor_time_limit
        /\ _interactor.memory = _interactor_memory_limit
        /\ _interactor.binary = interactor_binary
        /\ _current_proc.case = caseNo

C19_Witness ==
    /\ Logged("parse_return_code") /\ caseNo = MaxCases /\ caseNo > 1
    /\ _interactor.case = caseNo /\ _interactor_stderr = caseNo

=============================================================================
